---- MODULE Spec2Model ----
(***************************************************************************)
(* Transport scheduler, mixing graph, voice scheduling, offline rendering *)
(* and MIDI file writer of the DAW.                                        *)
(*                                                                         *)
(* Units: musical positions are the program's ticks (256 per quarter       *)
(* note).  Times of the audio clock are counted in tenths of a second, so  *)
(* 0.1 s = 1, the default synth release 0.5 s = 5.  The clock is observed  *)
(* on a lattice of whole seconds (ClockSteps) and the tempi are 60 and 120 *)
(* bpm, so that every tick <-> time conversion the code performs in        *)
(* floating point is exact in the integers used here.                      *)
(***************************************************************************)
EXTENDS Integers, Sequences, FiniteSets, TLC

TICKS_PER_QUARTER_NOTE == 256

\* ---- bounds of the model ------------------------------------------------
MaxTime == 30            \* the audio clock is observed up to 3 s
ClockSteps == {10, 20}   \* the clock advances by 1 s or 2 s between events
Bpms == {60, 120}
Volumes == {5, 10}       \* track.volume in tenths (0.5, 1.0)
Pans == {-10, 0}         \* track.pan in tenths (-1.0, 0.0)

StopEpsilon == 1         \* the 0.1 s added to the release in Stoppable.stop
SynthRelease == 5        \* envelope.release of the default synth, 0.5 s
SynthDecay == 3          \* envelope.decay of the default synth, 0.3 s
SynthAttack == 1         \* an attack of 0.1 s (the default 0.01 s is no whole tenth)
BufferDuration == 10     \* length of every sample / audio buffer, 1 s
RenderBpm == 120         \* the literal 120 in scheduleSynthPlayback
RenderTail == 10         \* the literal 1 s added to the rendered length
SamplesPerTenth == 4410  \* 44100 samples per second

VARIABLES
    project,                 \* React state `project` of the latest render
    trackNodes,              \* useAudioGraph nodesRef: id -> [gain, pan]
    clock,                   \* audioContext.currentTime
    isPlaying,               \* React state isPlaying
    playheadPosition,        \* React state playheadPosition
    activePlaybackSources,   \* activePlaybackSourcesRef: key -> handle
    sources,                 \* every emission created and not yet ended
    animationFrameIdRef,     \* animationFrameIdRef.current, 0 = undefined
    pendingFrames,           \* requested animation frames not yet run
    playbackTimeRef,         \* playbackTimeRef.current
    lastPass,                \* what the scheduling pass now in force read and did
    renderResult,            \* outcome of the latest renderMidiTrackToBuffer call
    midiOptions,             \* the options handed to generateMultiTrackMidi
    midiData,                \* the bytes generateMultiTrackMidi put in the Blob
    vlqCalls,                \* the writeVariableLength calls of that export
    dragging,                \* the mousemove listeners of a loop-region drag
    audioBuffer,             \* the AudioBuffer handed to bufferToWav
    wavData                  \* the bytes of the Blob bufferToWav returned

vars == <<project, trackNodes, clock, isPlaying, playheadPosition,
          activePlaybackSources, sources, animationFrameIdRef, pendingFrames,
          playbackTimeRef, lastPass, renderResult, midiOptions, midiData, vlqCalls,
          dragging, audioBuffer, wavData>>

\* what the transport and the mixer never touch
offline == <<renderResult, midiOptions, midiData, vlqCalls, dragging, audioBuffer,
             wavData>>

\* ---- tempo clock --------------------------------------------------------
\* ticks * (60 / bpm) / 256 seconds, expressed in tenths of a second
ticksToSeconds(ticks, bpm) == (ticks * 600) \div (bpm * TICKS_PER_QUARTER_NOTE)

\* (elapsedTime / (60 / bpm)) * 256 with elapsedTime in tenths of a second
elapsedTicksOf(elapsedTime, bpm) ==
    (elapsedTime * bpm * TICKS_PER_QUARTER_NOTE) \div 600

Max(a, b) == IF a >= b THEN a ELSE b

\* ---- data model ---------------------------------------------------------
\* instrument: absent, a synth with its envelope (attack, decay, release), or
\* a sampler with or without a loaded sample
NoInstrument ==
    [type |-> "none", attack |-> 0, decay |-> 0, release |-> 0, hasSample |-> FALSE]
Synth(attack, decay, release) ==
    [type |-> "synth", attack |-> attack, decay |-> decay, release |-> release,
     hasSample |-> FALSE]
SynthInstrument == Synth(SynthAttack, SynthDecay, SynthRelease)
SamplerInstrument ==
    [type |-> "sampler", attack |-> 0, decay |-> 0, release |-> 0, hasSample |-> TRUE]
\* the instrument { type: 'sampler' } of a new drum track: no sample loaded
EmptySampler == [SamplerInstrument EXCEPT !.hasSample = FALSE]

MelodyNote(start, duration) ==
    [midiNote |-> 60, startTick |-> start, durationTicks |-> duration, velocity |-> 1]

MIDIDAWClip(cid, start, notes) ==
    [id |-> cid, type |-> "midi", startTick |-> start, notes |-> notes,
     hasBuffer |-> FALSE]

AudioDAWClip(cid, start) ==
    [id |-> cid, type |-> "audio", startTick |-> start, notes |-> <<>>,
     hasBuffer |-> TRUE]

DAWTrack(tid, ttype, instr, clips) ==
    [id |-> tid, trackType |-> ttype, instrument |-> instr, clips |-> clips,
     volume |-> 10, pan |-> 0, isMuted |-> FALSE, isSoloed |-> FALSE]

\* The projects playback starts from.  Track 1 is a synth track whose clip
\* starts at tick 256; track 2 is an audio track with one audio clip, or a
\* sampler track.  The first layout has a note four quarters long, the
\* second two notes of the same pitch at the same tick on the synth track.
TrackLayouts ==
    { << DAWTrack(1, "midi", SynthInstrument,
                  <<MIDIDAWClip(1, 256, <<MelodyNote(0, 256), MelodyNote(256, 1024)>>)>>),
         DAWTrack(2, "audio", NoInstrument, <<AudioDAWClip(2, 256)>>) >>,
      << DAWTrack(1, "midi", SynthInstrument,
                  <<MIDIDAWClip(1, 256, <<MelodyNote(256, 256), MelodyNote(256, 256)>>)>>),
         DAWTrack(2, "midi", SamplerInstrument,
                  <<MIDIDAWClip(2, 0, <<MelodyNote(256, 256)>>)>>) >> }

LoopRegions ==
    { [isEnabled |-> FALSE, startTick |-> 0, endTick |-> 1024],
      [isEnabled |-> TRUE, startTick |-> 256, endTick |-> 768] }

InitialProjects ==
    { [bpm |-> b, durationTicks |-> 4 * TICKS_PER_QUARTER_NOTE,
       loopRegion |-> lr, tracks |-> ts] :
      b \in Bpms, lr \in LoopRegions, ts \in TrackLayouts }

TrackIndex(tracks) == 1..Len(tracks)

\* ---- mixing graph (useAudioGraph) ---------------------------------------
anySolo(tracks) == \E i \in TrackIndex(tracks) : tracks[i].isSoloed

audible(t, tracks) == ~t.isMuted /\ (~anySolo(tracks) \/ t.isSoloed)

\* the effect body: one gain/panner pair per track, parameters synced
useAudioGraph(tracks) ==
    [i \in TrackIndex(tracks) |->
        [gain |-> IF audible(tracks[i], tracks) THEN tracks[i].volume ELSE 0,
         pan |-> tracks[i].pan]]

\* ---- transport scheduler ------------------------------------------------
\* a filter that looks at the mute flag only
audibleTracksIgnoringSolo(tracks) ==
    {i \in TrackIndex(tracks) : ~tracks[i].isMuted}

soloedTracks(tracks) == {i \in TrackIndex(tracks) : tracks[i].isSoloed}

audibleTracks(tracks) ==
    {i \in TrackIndex(tracks) :
        ~tracks[i].isMuted /\ (soloedTracks(tracks) = {} \/ tracks[i].isSoloed)}

EmptyMap == [k \in {} |-> 0]

MapSet(m, k, v) == [x \in (DOMAIN m) \cup {k} |-> IF x = k THEN v ELSE m[x]]

Range(m) == {m[k] : k \in DOMAIN m}

\* the handle object a registry entry refers to
Ident(s) == [track |-> s.track, clip |-> s.clip, note |-> s.note]

\* s is the emission the registry holds under its key.  held is cleared when
\* the entry is replaced or the registry is cleared, which tells an emission
\* of an earlier pass from a later one of the same note.
InRegistry(s, registry) ==
    s.held /\ s.key \in DOMAIN registry /\ registry[s.key] = Ident(s)

\* Stoppable.stop of a synth voice ignores its argument: it fades over the
\* release and stops the oscillators release + 0.1 s from now.  A buffer
\* source (sampler voice, audio clip) is an AudioBufferSourceNode whose
\* stop(0) ends it at once.
stopSource(s, now) ==
    IF s.kind = "synth"
    THEN [s EXCEPT !.stopAt = now + s.release + StopEpsilon, !.stopCalled = TRUE]
    ELSE [s EXCEPT !.stopAt = now, !.stopCalled = TRUE]

\* a stopPlayback that stops every handle but forgets registry.clear()
stopPlaybackNoClear(st, now) ==
    [sources |-> {IF InRegistry(s, st.registry) THEN stopSource(s, now) ELSE s :
                     s \in st.sources},
     registry |-> st.registry,
     pending |-> {f \in st.pending : f.id # st.frameRef},
     frameRef |-> st.frameRef]

\* a stopPlayback that forgets cancelAnimationFrame
stopPlaybackNoCancel(st, now) ==
    [sources |-> {IF InRegistry(s, st.registry)
                  THEN [stopSource(s, now) EXCEPT !.held = FALSE] ELSE s :
                     s \in st.sources},
     registry |-> EmptyMap,
     pending |-> st.pending,
     frameRef |-> st.frameRef]

\* stopPlayback as a function of the engine state st =
\* [sources, registry, pending, frameRef] at clock reading now
stopPlayback(st, now) ==
    [sources |-> {IF InRegistry(s, st.registry)
                  THEN [stopSource(s, now) EXCEPT !.held = FALSE] ELSE s :
                     s \in st.sources},
     registry |-> EmptyMap,
     pending |-> {f \in st.pending : f.id # st.frameRef},
     frameRef |-> st.frameRef]

Engine ==
    [sources |-> sources, registry |-> activePlaybackSources,
     pending |-> pendingFrames, frameRef |-> animationFrameIdRef]

\* the null a scheduling call returns when it creates no emission
NullSource ==
    [kind |-> "null", when |-> 0, stopAt |-> 0, release |-> 0, stopCalled |-> FALSE,
     midiNote |-> 0, velocity |-> 0, decayEnd |-> 0, releaseStart |-> 0]

\* scheduleSynthPlayback: the envelope and the oscillators of one note.
\* decayEnd is the end of the ramp to the sustain level, releaseStart the
\* time of the setValueAtTime that opens the final ramp, stopAt the time the
\* oscillators are told to stop.
scheduleSynthPlayback(instrument, note, when) ==
    LET durationSec == ticksToSeconds(note.durationTicks, RenderBpm)
        releaseStart == when + durationSec - instrument.release
    IN  [kind |-> "synth", when |-> when, stopAt |-> when + durationSec,
         release |-> instrument.release, stopCalled |-> FALSE,
         midiNote |-> note.midiNote, velocity |-> note.velocity,
         decayEnd |-> when + instrument.attack + instrument.decay,
         releaseStart |-> Max(when, releaseStart)]

\* scheduleSamplerPlayback: the loaded sample from its start, or null
scheduleSamplerPlayback(instrument, note, when) ==
    IF ~instrument.hasSample THEN NullSource
    ELSE [kind |-> "sampler", when |-> when, stopAt |-> when + BufferDuration,
          release |-> 0, stopCalled |-> FALSE,
          midiNote |-> 0, velocity |-> 0, decayEnd |-> when, releaseStart |-> when]

\* scheduleNotePlayback: the voice created for one note, or null
scheduleNotePlayback(track, note, when) ==
    IF track.instrument.type = "none" THEN NullSource
    ELSE IF track.instrument.type = "synth"
    THEN scheduleSynthPlayback(track.instrument, note, when)
    ELSE IF track.instrument.type = "sampler"
    THEN scheduleSamplerPlayback(track.instrument, note, when)
    ELSE NullSource

\* The requests of one clip, in the order of the forEach loops.  The code
\* evaluates playbackStartTime + notePlayTimeOffset + noteStartInClipSec
\* - scheduleStartOffset in double precision: for a note exactly at the
\* playhead the sum is playbackStartTime up to rounding, and it can come out
\* one ulp below it (e.g. bpm 140, clip at 0, note and playhead at tick 4096,
\* playbackStartTime 27.478794110434634 gives 27.47879411043463).  With
\* scheduleStartOffset = 0 every term is added to playbackStartTime and the
\* sum cannot fall below it.  lost holds the clips whose sum rounds below.
ClipRequests(proj, ti, ci, startFromTick, playbackStartTime, lost) ==
    LET track == proj.tracks[ti]
        clip == track.clips[ci]
        notePlayTimeOffset == ticksToSeconds(clip.startTick, proj.bpm)
        scheduleStartOffset == ticksToSeconds(startFromTick, proj.bpm)
        notePlayTime(n) ==
            playbackStartTime + notePlayTimeOffset
              + ticksToSeconds(clip.notes[n].startTick, proj.bpm) - scheduleStartOffset
        all == [n \in 1..Len(clip.notes) |->
                  [kind |-> "note", track |-> track.id, clip |-> clip.id, clipIx |-> ci,
                   note |-> n, midiNote |-> clip.notes[n].midiNote,
                   when |-> notePlayTime(n), offset |-> 0]]
        due(r) ==
            \/ r.when > playbackStartTime
            \/ r.when = playbackStartTime /\ (scheduleStartOffset = 0 \/ clip.id \notin lost)
    IN  IF clip.type = "midi" THEN SelectSeq(all, due)
        ELSE IF clip.type = "audio" /\ clip.hasBuffer
        THEN << [kind |-> "audio", track |-> track.id, clip |-> clip.id, clipIx |-> ci,
                 note |-> 0, midiNote |-> 0,
                 when |-> Max(playbackStartTime,
                              playbackStartTime + notePlayTimeOffset - scheduleStartOffset),
                 offset |-> Max(0, scheduleStartOffset - notePlayTimeOffset)] >>
        ELSE <<>>

RECURSIVE TrackRequests(_, _, _, _, _, _)
TrackRequests(proj, ti, ci, startFromTick, playbackStartTime, lost) ==
    IF ci > Len(proj.tracks[ti].clips) THEN <<>>
    ELSE ClipRequests(proj, ti, ci, startFromTick, playbackStartTime, lost)
           \o TrackRequests(proj, ti, ci + 1, startFromTick, playbackStartTime, lost)

RECURSIVE PassRequests(_, _, _, _, _)
PassRequests(proj, ti, startFromTick, playbackStartTime, lost) ==
    IF ti > Len(proj.tracks) THEN <<>>
    ELSE (IF ti \in audibleTracks(proj.tracks)
          THEN TrackRequests(proj, ti, 1, startFromTick, playbackStartTime, lost)
          ELSE <<>>)
           \o PassRequests(proj, ti + 1, startFromTick, playbackStartTime, lost)

\* the clips holding a note exactly at a non-zero playhead: the clips whose
\* notePlayTime sum can round below playbackStartTime
BoundaryClips(proj, startFromTick) ==
    UNION {{proj.tracks[i].clips[j].id :
              j \in {k \in DOMAIN proj.tracks[i].clips :
                       /\ startFromTick # 0
                       /\ proj.tracks[i].clips[k].type = "midi"
                       /\ \E n \in DOMAIN proj.tracks[i].clips[k].notes :
                             proj.tracks[i].clips[k].startTick
                               + proj.tracks[i].clips[k].notes[n].startTick = startFromTick}} :
             i \in DOMAIN proj.tracks}

\* playNote / the audio branch: the registry key and the emission of a request
playNoteKey(r) ==
    IF r.kind = "note"
    THEN [prefix |-> "play", track |-> r.track, id |-> r.midiNote, when |-> r.when]
    ELSE [prefix |-> "audio", track |-> 0, id |-> r.clip, when |-> 0]

\* playNote looks the track's nodes up in the graph as it is now and returns
\* without an emission when there are none; the audio branch starts its
\* source with or without them.  Tracks are numbered by position and only
\* the last one is ever deleted, so a track's id is its index.
EmissionOf(proj, r) ==
    IF r.kind = "note" /\ r.track \notin DOMAIN trackNodes
    THEN NullSource
    ELSE IF r.kind = "note"
    THEN scheduleNotePlayback(proj.tracks[r.track],
                              proj.tracks[r.track].clips[r.clipIx].notes[r.note], r.when)
    ELSE [kind |-> "audio", when |-> r.when,
          stopAt |-> r.when + Max(0, BufferDuration - r.offset),
          release |-> 0, stopCalled |-> FALSE,
          midiNote |-> 0, velocity |-> 0, decayEnd |-> r.when, releaseStart |-> r.when]

\* Map.set(key, source): the entry the key held, if any, is replaced
registrySet(st, key, e) ==
    [st EXCEPT
       !.sources = {IF s.held /\ s.key = key THEN [s EXCEPT !.held = FALSE] ELSE s :
                       s \in st.sources}
                   \cup {e},
       !.registry = MapSet(@, key, Ident(e))]

\* a pass that gives up at the first note that yields no emission
RECURSIVE playRequestsAbortOnNull(_, _, _, _)
playRequestsAbortOnNull(proj, reqs, i, st) ==
    IF i > Len(reqs) THEN st
    ELSE LET e == EmissionOf(proj, reqs[i])
         IN  IF e = NullSource THEN st
             ELSE playRequestsAbortOnNull(proj, reqs, i + 1,
                               registrySet(st, playNoteKey(reqs[i]),
                                           e @@ [track |-> reqs[i].track,
                                                 clip |-> reqs[i].clip,
                                                 note |-> reqs[i].note,
                                                 offset |-> reqs[i].offset,
                                                 key |-> playNoteKey(reqs[i]),
                                                 held |-> TRUE]))

\* run the requests in order: every emission is created and stored under
\* its key
RECURSIVE playRequests(_, _, _, _)
playRequests(proj, reqs, i, st) ==
    IF i > Len(reqs) THEN st
    ELSE LET e == EmissionOf(proj, reqs[i])
         IN  IF e = NullSource THEN playRequests(proj, reqs, i + 1, st)
             ELSE playRequests(proj, reqs, i + 1,
                               registrySet(st, playNoteKey(reqs[i]),
                                           e @@ [track |-> reqs[i].track,
                                                 clip |-> reqs[i].clip,
                                                 note |-> reqs[i].note,
                                                 offset |-> reqs[i].offset,
                                                 key |-> playNoteKey(reqs[i]),
                                                 held |-> TRUE]))

\* requestAnimationFrame hands out an id that no pending frame and no
\* stored reference carries
NewFrameId(pending, ref) ==
    CHOOSE n \in 1..(Cardinality(pending) + 2) :
        /\ n # ref
        /\ \A f \in pending : f.id # n
        /\ \A m \in 1..(n - 1) : m = ref \/ \E f \in pending : f.id = m

\* lastPass when no scheduling pass is in force
NoPass ==
    [origin |-> "none", startTick |-> 0, time |-> 0, bpm |-> 0, tracks |-> <<>>,
     requests |-> {}]

\* startPlayback(startFromTick) of the render whose project is proj: the
\* primed engine state.  origin tells the call site ("play" or "loop").
startPlayback(proj, startFromTick, origin, eng) ==
    \E lost \in SUBSET BoundaryClips(proj, startFromTick) :
        LET stopped == stopPlayback(eng, clock)
            reqs == PassRequests(proj, 1, startFromTick, clock, lost)
            played == playRequests(proj, reqs, 1, stopped)
            fid == NewFrameId(played.pending, played.frameRef)
        IN  /\ sources' = played.sources
            /\ activePlaybackSources' = played.registry
            /\ playbackTimeRef' = clock
            /\ lastPass' = [origin |-> origin, startTick |-> startFromTick,
                            time |-> clock, bpm |-> proj.bpm, tracks |-> proj.tracks,
                            requests |-> {[track |-> reqs[i].track, clip |-> reqs[i].clip,
                                           note |-> reqs[i].note, when |-> reqs[i].when] :
                                            i \in {j \in 1..Len(reqs) : reqs[j].kind = "note"}}]
            /\ pendingFrames' = played.pending \cup
                   {[id |-> fid, startFromTick |-> startFromTick, project |-> proj]}
            /\ animationFrameIdRef' = fid

\* the effects of a bare stopPlayback() call on the variables
stopPlaybackCall ==
    LET stopped == stopPlayback(Engine, clock)
    IN  /\ sources' = stopped.sources
        /\ activePlaybackSources' = stopped.registry
        /\ pendingFrames' = stopped.pending
        /\ animationFrameIdRef' = stopped.frameRef
        /\ UNCHANGED <<playbackTimeRef, lastPass>>

\* ---- actions ------------------------------------------------------------
handleTransportPlay ==
    IF isPlaying
    THEN /\ isPlaying' = FALSE
         /\ stopPlaybackCall
         /\ UNCHANGED <<project, trackNodes, clock, playheadPosition>>
         /\ UNCHANGED offline
    ELSE /\ isPlaying' = TRUE
         /\ startPlayback(project, playheadPosition, "play", Engine)
         /\ UNCHANGED <<project, trackNodes, clock, playheadPosition>>
         /\ UNCHANGED offline

handleTransportStop ==
    /\ isPlaying' = FALSE
    /\ stopPlaybackCall
    /\ playheadPosition' = IF project.loopRegion.isEnabled
                           THEN project.loopRegion.startTick ELSE 0
    /\ UNCHANGED <<project, trackNodes, clock>>
    /\ UNCHANGED offline

\* what a poll of frame f computes
newPositionOf(f) ==
    f.startFromTick + elapsedTicksOf(clock - playbackTimeRef, f.project.bpm)

crossesLoop(f) ==
    f.project.loopRegion.isEnabled /\ newPositionOf(f) >= f.project.loopRegion.endTick

\* an animate without the return after the re-schedule: it falls through to
\* setPlayheadPosition and requests a frame of its own as well
animateFallsThrough(f) ==
    /\ f \in pendingFrames
    /\ IF crossesLoop(f)
       THEN \E lost \in SUBSET BoundaryClips(f.project, f.project.loopRegion.startTick) :
            LET lr == f.project.loopRegion
                stopped == stopPlayback([Engine EXCEPT !.pending = @ \ {f}], clock)
                reqs == PassRequests(f.project, 1, lr.startTick, clock, lost)
                played == playRequests(f.project, reqs, 1, stopped)
                fid == NewFrameId(played.pending, played.frameRef)
                own == NewFrameId(played.pending \cup {[f EXCEPT !.id = fid]}, fid)
            IN  /\ sources' = played.sources
                /\ activePlaybackSources' = played.registry
                /\ playbackTimeRef' = clock
                /\ lastPass' = [origin |-> "loop", startTick |-> lr.startTick,
                                time |-> clock, bpm |-> f.project.bpm,
                                tracks |-> f.project.tracks,
                                requests |-> {[track |-> reqs[i].track, clip |-> reqs[i].clip,
                                               note |-> reqs[i].note, when |-> reqs[i].when] :
                                                i \in {j \in 1..Len(reqs) : reqs[j].kind = "note"}}]
                /\ pendingFrames' = played.pending \cup
                       {[id |-> fid, startFromTick |-> lr.startTick, project |-> f.project],
                        [f EXCEPT !.id = own]}
                /\ animationFrameIdRef' = own
                /\ playheadPosition' =
                       lr.startTick + ((newPositionOf(f) - lr.endTick) % (lr.endTick - lr.startTick))
       ELSE /\ playheadPosition' = newPositionOf(f)
            /\ LET rest == pendingFrames \ {f}
                   fid == NewFrameId(rest, animationFrameIdRef)
               IN  /\ pendingFrames' = rest \cup {[f EXCEPT !.id = fid]}
                   /\ animationFrameIdRef' = fid
            /\ UNCHANGED <<sources, activePlaybackSources, playbackTimeRef, lastPass>>
    /\ UNCHANGED <<project, trackNodes, clock, isPlaying>>
    /\ UNCHANGED offline

\* the animation-frame callback of a pending frame
animate(f) ==
    /\ f \in pendingFrames
    /\ IF crossesLoop(f)
       THEN /\ startPlayback(f.project, f.project.loopRegion.startTick, "loop",
                             [Engine EXCEPT !.pending = @ \ {f}])
            /\ UNCHANGED playheadPosition
       ELSE /\ playheadPosition' = newPositionOf(f)
            /\ LET rest == pendingFrames \ {f}
                   fid == NewFrameId(rest, animationFrameIdRef)
               IN  /\ pendingFrames' = rest \cup {[f EXCEPT !.id = fid]}
                   /\ animationFrameIdRef' = fid
            /\ UNCHANGED <<sources, activePlaybackSources, playbackTimeRef, lastPass>>
    /\ UNCHANGED <<project, trackNodes, clock, isPlaying>>
    /\ UNCHANGED offline

\* the audio clock runs on; emissions whose stop time has passed have ended
clockAdvance(d) ==
    /\ clock + d <= MaxTime
    /\ clock' = clock + d
    /\ sources' = {s \in sources : s.stopAt > clock + d}
    /\ UNCHANGED <<project, trackNodes, isPlaying, playheadPosition,
                   activePlaybackSources, animationFrameIdRef, pendingFrames,
                   playbackTimeRef, lastPass>>
    /\ UNCHANGED offline

\* an updateTrack whose change never reaches the gain and panner nodes
updateTrackNoSync(ti, field, value) ==
    /\ ti \in TrackIndex(project.tracks)
    /\ project' = [project EXCEPT !.tracks[ti][field] = value]
    /\ project' # project
    /\ UNCHANGED <<trackNodes, clock, isPlaying, playheadPosition, activePlaybackSources,
                   sources, animationFrameIdRef, pendingFrames, playbackTimeRef,
                   lastPass>>
    /\ UNCHANGED offline

\* updateTrack(trackId, {field: value}) followed by the useAudioGraph effect
updateTrack(ti, field, value) ==
    /\ ti \in TrackIndex(project.tracks)
    /\ project' = [project EXCEPT !.tracks[ti][field] = value]
    /\ project' # project
    /\ trackNodes' = useAudioGraph(project'.tracks)
    /\ UNCHANGED <<clock, isPlaying, playheadPosition, activePlaybackSources,
                   sources, animationFrameIdRef, pendingFrames, playbackTimeRef,
                   lastPass>>
    /\ UNCHANGED offline

\* deleteTrack(trackId) of the last track, followed by the useAudioGraph
\* effect, which prunes the nodes of the track
deleteTrack ==
    /\ Len(project.tracks) > 1
    /\ project' = [project EXCEPT !.tracks = SubSeq(@, 1, Len(@) - 1)]
    /\ trackNodes' = useAudioGraph(project'.tracks)
    /\ UNCHANGED <<clock, isPlaying, playheadPosition, activePlaybackSources,
                   sources, animationFrameIdRef, pendingFrames, playbackTimeRef,
                   lastPass>>
    /\ UNCHANGED offline

\* ---- offline rendering (renderMidiTrackToBuffer) ------------------------
\* clips.flatMap(clip => clip.notes.map(note => ({...note, startTick:
\* note.startTick + clip.startTick})))
RECURSIVE allNotesOf(_, _)
allNotesOf(clips, ci) ==
    IF ci > Len(clips) THEN <<>>
    ELSE [n \in 1..Len(clips[ci].notes) |->
             [clips[ci].notes[n] EXCEPT !.startTick = @ + clips[ci].startTick]]
           \o allNotesOf(clips, ci + 1)

\* the forEach that keeps the largest note end
RECURSIVE maxTickOf(_, _, _)
maxTickOf(allNotes, i, maxTick) ==
    IF i > Len(allNotes) THEN maxTick
    ELSE LET endTick == allNotes[i].startTick + allNotes[i].durationTicks
         IN  maxTickOf(allNotes, i + 1, IF endTick > maxTick THEN endTick ELSE maxTick)

\* no render has been asked for
NoRender ==
    [status |-> "none", message |-> "", track |-> NoInstrument, clips |-> <<>>,
     bpm |-> 0, length |-> 0, voices |-> <<>>]

\* a render that places every note at its tick within the clip
renderMidiTrackToBufferClipRelative(track, clips, bpm) ==
    LET allNotes == allNotesOf([c \in DOMAIN clips |-> [clips[c] EXCEPT !.startTick = 0]], 1)
        maxTick == maxTickOf(allNotesOf(clips, 1), 1, 0)
        totalDurationSeconds ==
            ticksToSeconds(maxTick, bpm)
              + (IF track.instrument.type = "synth"
                 THEN track.instrument.release + RenderTail ELSE RenderTail)
    IN  [status |-> IF track.instrument.type = "none" \/ Len(allNotes) = 0
                    THEN "error" ELSE "ok",
         message |-> "", track |-> track, clips |-> clips, bpm |-> bpm,
         length |-> IF track.instrument.type = "none" \/ Len(allNotes) = 0
                    THEN 0 ELSE SamplesPerTenth * totalDurationSeconds,
         voices |-> IF track.instrument.type = "none" THEN <<>>
                    ELSE [i \in 1..Len(allNotes) |->
                            scheduleNotePlayback(track, allNotes[i],
                                                 ticksToSeconds(allNotes[i].startTick, bpm))]]

\* a render without the check for an empty note list
renderMidiTrackToBufferUnchecked(track, clips, bpm) ==
    LET allNotes == allNotesOf(clips, 1)
        maxTick == maxTickOf(allNotes, 1, 0)
        totalDurationSeconds ==
            ticksToSeconds(maxTick, bpm)
              + (IF track.instrument.type = "synth"
                 THEN track.instrument.release + RenderTail ELSE RenderTail)
    IN  [status |-> "ok", message |-> "", track |-> track, clips |-> clips,
         bpm |-> bpm,
         length |-> SamplesPerTenth * totalDurationSeconds,
         voices |-> [i \in 1..Len(allNotes) |->
                       scheduleNotePlayback(track, allNotes[i],
                                            ticksToSeconds(allNotes[i].startTick, bpm))]]

\* a render that adds the clip's offset to the clip's own notes
renderMidiTrackToBufferInPlace(track, clips, bpm) ==
    LET allNotes == allNotesOf(clips, 1)
        maxTick == maxTickOf(allNotes, 1, 0)
        totalDurationSeconds ==
            ticksToSeconds(maxTick, bpm)
              + (IF track.instrument.type = "synth"
                 THEN track.instrument.release + RenderTail ELSE RenderTail)
        shifted == [c \in DOMAIN clips |->
                      [clips[c] EXCEPT !.notes = allNotesOf(<<clips[c]>>, 1)]]
    IN  IF track.trackType # "midi" \/ track.instrument.type = "none"
        THEN [status |-> "error", message |-> "Not a valid MIDI track for rendering.",
              track |-> track, clips |-> clips, bpm |-> bpm, length |-> 0,
              voices |-> <<>>]
        ELSE IF Len(allNotes) = 0
        THEN [status |-> "error", message |-> "No notes to render.",
              track |-> track, clips |-> shifted, bpm |-> bpm, length |-> 0,
              voices |-> <<>>]
        ELSE [status |-> "ok", message |-> "", track |-> track, clips |-> shifted,
              bpm |-> bpm,
              length |-> SamplesPerTenth * totalDurationSeconds,
              voices |-> [i \in 1..Len(allNotes) |->
                            scheduleNotePlayback(track, allNotes[i],
                                                 ticksToSeconds(allNotes[i].startTick, bpm))]]

\* The outcome of renderMidiTrackToBuffer(track, clips, bpm): a thrown error,
\* or the OfflineAudioContext's length in sample frames and the voices
\* scheduled into it (null where scheduleNotePlayback returned null); clips
\* is the caller's array of clips as the call leaves it.
renderMidiTrackToBuffer(track, clips, bpm) ==
    LET allNotes == allNotesOf(clips, 1)
        maxTick == maxTickOf(allNotes, 1, 0)
        totalDurationSeconds ==
            ticksToSeconds(maxTick, bpm)
              + (IF track.instrument.type = "synth"
                 THEN track.instrument.release + RenderTail ELSE RenderTail)
        failed(message) ==
            [status |-> "error", message |-> message, track |-> track, clips |-> clips,
             bpm |-> bpm, length |-> 0, voices |-> <<>>]
    IN  IF track.trackType # "midi" \/ track.instrument.type = "none"
        THEN failed("Not a valid MIDI track for rendering.")
        ELSE IF Len(allNotes) = 0
        THEN failed("No notes to render.")
        ELSE [status |-> "ok", message |-> "", track |-> track, clips |-> clips,
              bpm |-> bpm,
              length |-> SamplesPerTenth * totalDurationSeconds,
              voices |-> [i \in 1..Len(allNotes) |->
                            scheduleNotePlayback(track, allNotes[i],
                                                 ticksToSeconds(allNotes[i].startTick, bpm))]]

\* ---- MIDI file writer (generateMultiTrackMidi) --------------------------
\* writeStringToBytes('MThd') and writeStringToBytes('MTrk')
MThdTag == <<77, 84, 104, 100>>
MTrkTag == <<77, 84, 114, 107>>

\* the four bytes (x >> 24) & 0xFF, (x >> 16) & 0xFF, (x >> 8) & 0xFF, x & 0xFF
BigEndian32(x) ==
    <<(x \div 16777216) % 256, (x \div 65536) % 256, (x \div 256) % 256, x % 256>>

\* the first loop of writeVariableLength: while ((value >>= 7) > 0)
\* { buffer <<= 8; buffer |= 0x80 | (value & 0x7F) }.  Values stay below
\* 2^28, where the packed buffer fits the 32-bit integer of the bit operators.
RECURSIVE writeVariableLengthPack(_, _)
writeVariableLengthPack(value, buffer) ==
    LET shifted == value \div 128
    IN  IF shifted > 0
        THEN writeVariableLengthPack(shifted, buffer * 256 + 128 + (shifted % 128))
        ELSE buffer

\* the second loop: push buffer & 0xFF, go on while its bit 0x80 is set
RECURSIVE writeVariableLengthEmit(_)
writeVariableLengthEmit(buffer) ==
    <<buffer % 256>> \o
       (IF (buffer % 256) \div 128 = 1 THEN writeVariableLengthEmit(buffer \div 256)
        ELSE <<>>)

\* an encoder that writes the least significant group first
RECURSIVE writeVariableLengthLowFirst(_)
writeVariableLengthLowFirst(value) ==
    IF value < 128 THEN <<value>>
    ELSE <<128 + (value % 128)>> \o writeVariableLengthLowFirst(value \div 128)

writeVariableLength(value) ==
    writeVariableLengthEmit(writeVariableLengthPack(value, value % 128))

\* a chunk header that counts its own eight bytes in the length
createTrackChunkCountsHeader(trackEvents) ==
    MTrkTag \o BigEndian32(Len(trackEvents) + 8) \o trackEvents

createTrackChunk(trackEvents) ==
    MTrkTag \o BigEndian32(Len(trackEvents)) \o trackEvents

\* the note-on / note-off pairs of a track in the order of track.notes
RECURSIVE timedEventsOf(_, _, _)
timedEventsOf(track, velocity, n) ==
    IF n > Len(track.notes) THEN <<>>
    ELSE << [tick |-> track.notes[n].startTick,
             message |-> <<144 + track.channel, track.notes[n].midiNote, velocity>>],
            [tick |-> track.notes[n].startTick + track.notes[n].durationTicks,
             message |-> <<128 + track.channel, track.notes[n].midiNote, 0>>] >>
           \o timedEventsOf(track, velocity, n + 1)

\* a writer that leaves the events in the order of the notes
unsortedEvents(events, n) == events

\* timedEvents.sort((a, b) => a.tick - b.tick): Array.prototype.sort is
\* stable, so events of equal tick keep their order of insertion.  The
\* first n events, sorted.
RECURSIVE sortByTick(_, _)
sortByTick(events, n) ==
    IF n = 0 THEN <<>>
    ELSE LET sorted == sortByTick(events, n - 1)
             e == events[n]
             k == Cardinality({i \in 1..Len(sorted) : sorted[i].tick <= e.tick})
         IN  SubSeq(sorted, 1, k) \o <<e>> \o SubSeq(sorted, k + 1, Len(sorted))

\* the delta-time of the i-th sorted event
deltaTimeOf(events, i) == events[i].tick - (IF i = 1 THEN 0 ELSE events[i - 1].tick)

\* lastTick = 0; forEach event: delta-time, then the message
RECURSIVE trackEventsOf(_, _)
trackEventsOf(events, i) ==
    IF i > Len(events) THEN <<>>
    ELSE writeVariableLength(deltaTimeOf(events, i)) \o events[i].message
           \o trackEventsOf(events, i + 1)

EndOfTrack == <<1, 255, 47, 0>>

\* the sorted events of one data track
dataTrackEvents(track) ==
    LET velocity == IF track.velocity = 0 THEN 100 ELSE track.velocity
        timedEvents == timedEventsOf(track, velocity, 1)
    IN  sortByTick(timedEvents, Len(timedEvents))

\* a writer that appends the data tracks last to first
RECURSIVE dataTrackChunksReversed(_, _)
dataTrackChunksReversed(tracks, t) ==
    IF t > Len(tracks) THEN <<>>
    ELSE dataTrackChunksReversed(tracks, t + 1)
           \o createTrackChunk(trackEventsOf(dataTrackEvents(tracks[t]), 1) \o EndOfTrack)

\* tracks.forEach: the chunk of every data track, in input order
RECURSIVE dataTrackChunks(_, _)
dataTrackChunks(tracks, t) ==
    IF t > Len(tracks) THEN <<>>
    ELSE createTrackChunk(trackEventsOf(dataTrackEvents(tracks[t]), 1) \o EndOfTrack)
           \o dataTrackChunks(tracks, t + 1)

\* new Uint8Array(allChunks): every element modulo 256
Uint8Array(bytes) == [i \in 1..Len(bytes) |-> bytes[i] % 256]

\* a tempo that drops the fraction instead of rounding
microsecondsPerQuarterTruncated(bpm) == 60000000 \div bpm

\* Math.round(60000000 / bpm), for whole bpm
microsecondsPerQuarterOf(bpm) == (2 * 60000000 + bpm) \div (2 * bpm)

\* the content of the Blob.  velocity 0 stands for an absent track.velocity.
generateMultiTrackMidi(options) ==
    LET numTracks == Len(options.tracks) + 1
        MThd == MThdTag \o <<0, 0, 0, 6, 0, 1,
                             (numTracks \div 256) % 256, numTracks % 256,
                             (TICKS_PER_QUARTER_NOTE \div 256) % 256,
                             TICKS_PER_QUARTER_NOTE % 256>>
        microsecondsPerQuarter == microsecondsPerQuarterOf(options.bpm)
        tempoTrackEvents ==
            <<0, 255, 81, 3,
              (microsecondsPerQuarter \div 65536) % 256,
              (microsecondsPerQuarter \div 256) % 256,
              microsecondsPerQuarter % 256>> \o EndOfTrack
    IN  Uint8Array(MThd \o createTrackChunk(tempoTrackEvents)
                     \o dataTrackChunks(options.tracks, 1))

\* the writeVariableLength calls generateMultiTrackMidi makes for options
writeVariableLengthCalls(options) ==
    UNION { LET events == dataTrackEvents(options.tracks[t])
            IN  {[value |-> deltaTimeOf(events, i),
                  bytes |-> writeVariableLength(deltaTimeOf(events, i))] :
                    i \in 1..Len(events)} :
            t \in 1..Len(options.tracks) }

NoOptions == [bpm |-> 0, tracks |-> <<>>]

\* ---- loop region on the timeline ruler (TimelineRuler) -------------------
Min(a, b) == IF a <= b THEN a ELSE b

\* What the onMouseMove of a drag of part computes from the region and the
\* project length its handleMouseDown captured (drag) and the pointer's
\* distance in ticks.
onMouseMoveRegion(drag, deltaTicks) ==
    LET initialStart == drag.loopRegion.startTick
        initialEnd == drag.loopRegion.endTick
    IN  IF drag.part = "start"
        THEN LET newStart == Max(0, initialStart + deltaTicks)
             IN  [drag.loopRegion EXCEPT
                    !.startTick = IF newStart >= initialEnd
                                  THEN initialEnd - TICKS_PER_QUARTER_NOTE ELSE newStart]
        ELSE IF drag.part = "end"
        THEN LET newEnd == Min(drag.durationTicks, initialEnd + deltaTicks)
             IN  [drag.loopRegion EXCEPT
                    !.endTick = IF newEnd <= initialStart
                                THEN initialStart + TICKS_PER_QUARTER_NOTE ELSE newEnd]
        ELSE LET duration == initialEnd - initialStart
                 newStart == Max(0, initialStart + deltaTicks)
             IN  IF newStart + duration > drag.durationTicks
                 THEN [drag.loopRegion EXCEPT !.startTick = drag.durationTicks - duration,
                                              !.endTick = drag.durationTicks]
                 ELSE [drag.loopRegion EXCEPT !.startTick = newStart,
                                              !.endTick = newStart + duration]

\* the listener a mousedown on part registers
DragOf(part) ==
    [part |-> part, loopRegion |-> project.loopRegion,
     durationTicks |-> project.durationTicks]

\* a mousedown that stays on the handle it hit
handleMouseDownOnTargetOnly(part) ==
    /\ dragging = <<>>
    /\ project.loopRegion.isEnabled
    /\ dragging' = <<DragOf(part)>>
    /\ UNCHANGED <<project, trackNodes, clock, isPlaying, playheadPosition,
                   activePlaybackSources, sources, animationFrameIdRef, pendingFrames,
                   playbackTimeRef, lastPass, renderResult, midiOptions, midiData,
                   vlqCalls, audioBuffer, wavData>>

\* A mousedown on the loop bar or on one of its handles.  The handles are
\* children of the bar's element and the event is not stopped, so a
\* mousedown on a handle runs handleMouseDown(e, part) and then, bubbling,
\* handleMouseDown(e, 'bar'): both register their listeners, in this order.
handleMouseDown(part) ==
    /\ dragging = <<>>
    /\ project.loopRegion.isEnabled
    /\ dragging' = IF part = "bar" THEN <<DragOf("bar")>>
                   ELSE <<DragOf(part), DragOf("bar")>>
    /\ UNCHANGED <<project, trackNodes, clock, isPlaying, playheadPosition,
                   activePlaybackSources, sources, animationFrameIdRef, pendingFrames,
                   playbackTimeRef, lastPass, renderResult, midiOptions, midiData,
                   vlqCalls, audioBuffer, wavData>>

\* the listeners run in the order they were registered, each one's
\* onLoopRegionChange replacing the region
RECURSIVE runListeners(_, _, _, _)
runListeners(region, listeners, i, deltaTicks) ==
    IF i > Len(listeners) THEN region
    ELSE runListeners(onMouseMoveRegion(listeners[i], deltaTicks), listeners, i + 1,
                      deltaTicks)

\* a mousemove on the document while a drag is on
onMouseMove(deltaTicks) ==
    /\ dragging # <<>>
    /\ project' = [project EXCEPT
                      !.loopRegion = runListeners(@, dragging, 1, deltaTicks)]
    /\ UNCHANGED <<trackNodes, clock, isPlaying, playheadPosition,
                   activePlaybackSources, sources, animationFrameIdRef, pendingFrames,
                   playbackTimeRef, lastPass, renderResult, midiOptions, midiData,
                   vlqCalls, dragging, audioBuffer, wavData>>

\* the mouseup removes the listeners
onMouseUp ==
    /\ dragging # <<>>
    /\ dragging' = <<>>
    /\ UNCHANGED <<project, trackNodes, clock, isPlaying, playheadPosition,
                   activePlaybackSources, sources, animationFrameIdRef, pendingFrames,
                   playbackTimeRef, lastPass, renderResult, midiOptions, midiData,
                   vlqCalls, audioBuffer, wavData>>

\* ---- WAV file writer (bufferToWav) ----------------------------------------
\* An AudioBuffer: channels[j][i] is sample i of channel j.  Samples are
\* counted in quarters of full scale: 4 is 1.0, -6 is -1.5.
FullScale == 4

NoBuffer == [numberOfChannels |-> 0, length |-> 0, sampleRate |-> 0, channels |-> <<>>]

\* view.setUint8 / setUint16 / setUint32 / setInt16 (.., true): the low n
\* bytes of the value, lowest first
LittleEndian(value, n) ==
    [i \in 1..n |-> (value \div (256 ^ (i - 1))) % 256]

\* writeString: the char codes of 'RIFF', 'WAVE', 'fmt ' and 'data'
RiffTag == <<82, 73, 70, 70>>
WaveTag == <<87, 65, 86, 69>>
FmtTag == <<102, 109, 116, 32>>
DataTag == <<100, 97, 116, 97>>

\* one sample: clamped to [-1, 1], scaled by 0x8000 below zero and by 0x7FFF
\* otherwise, its fraction dropped by setInt16
sampleBytes(value) ==
    LET sample == Max(0 - FullScale, Min(FullScale, value))
        scaled == IF sample < 0 THEN 0 - ((0 - sample) * 32768) \div FullScale
                  ELSE (sample * 32767) \div FullScale
    IN  LittleEndian(scaled + 65536, 2)

\* the two loops: frame by frame, channel by channel
RECURSIVE interleaved(_, _, _)
interleaved(buffer, i, j) ==
    IF i > buffer.length THEN <<>>
    ELSE IF j > buffer.numberOfChannels THEN interleaved(buffer, i + 1, 1)
    ELSE sampleBytes(buffer.channels[j][i]) \o interleaved(buffer, i, j + 1)

\* a writer whose size fields count the frames of one channel
bufferToWavOneChannelSizes(buffer) ==
    LET numOfChan == buffer.numberOfChannels
    IN  RiffTag \o LittleEndian(36 + buffer.length * 2, 4)
          \o WaveTag \o FmtTag \o LittleEndian(16, 4)
          \o LittleEndian(1, 2) \o LittleEndian(numOfChan, 2)
          \o LittleEndian(buffer.sampleRate, 4)
          \o LittleEndian(buffer.sampleRate * 2 * numOfChan, 4)
          \o LittleEndian(numOfChan * 2, 2) \o LittleEndian(16, 2)
          \o DataTag \o LittleEndian(buffer.length * 2, 4)
          \o interleaved(buffer, 1, 1)

\* bufferToWav(buffer): the bytes of the view.  The ArrayBuffer has
\* buffer.length * numOfChan * 2 + 44 bytes, and the header and the samples
\* fill it exactly.
bufferToWav(buffer) ==
    LET numOfChan == buffer.numberOfChannels
    IN  RiffTag \o LittleEndian(36 + buffer.length * numOfChan * 2, 4)
          \o WaveTag \o FmtTag \o LittleEndian(16, 4)
          \o LittleEndian(1, 2) \o LittleEndian(numOfChan, 2)
          \o LittleEndian(buffer.sampleRate, 4)
          \o LittleEndian(buffer.sampleRate * 2 * numOfChan, 4)
          \o LittleEndian(numOfChan * 2, 2) \o LittleEndian(16, 2)
          \o DataTag \o LittleEndian(buffer.length * numOfChan * 2, 4)
          \o interleaved(buffer, 1, 1)

\* a caller turns its buffer into a WAV Blob
downloadWav ==
    /\ audioBuffer # NoBuffer
    /\ wavData' = bufferToWav(audioBuffer)
    /\ UNCHANGED <<project, trackNodes, clock, isPlaying, playheadPosition,
                   activePlaybackSources, sources, animationFrameIdRef, pendingFrames,
                   playbackTimeRef, lastPass, renderResult, midiOptions, midiData,
                   vlqCalls, dragging, audioBuffer>>

\* ---- export ---------------------------------------------------------------
\* handleExport([{trackId, format}]) for one track: a MIDI track is written
\* as a MIDI file of one data track or rendered for the WAV file; the
\* buffer of an audio track is taken as it is.  An error is caught.
handleExport(ti, format) ==
    /\ ti \in TrackIndex(project.tracks)
    /\ LET track == project.tracks[ti]
       IN  IF format = "midi" /\ track.trackType = "midi"
           THEN LET options == [bpm |-> project.bpm,
                                tracks |-> << [notes |-> allNotesOf(track.clips, 1),
                                               channel |-> 0, velocity |-> 100] >>]
                IN  /\ midiOptions' = options
                    /\ midiData' = generateMultiTrackMidi(options)
                    /\ vlqCalls' = writeVariableLengthCalls(options)
                    /\ UNCHANGED <<project, renderResult, dragging, audioBuffer, wavData>>
           ELSE IF format = "wav" /\ track.trackType = "midi"
           THEN LET rendered == renderMidiTrackToBuffer(track, track.clips, project.bpm)
                IN  /\ renderResult' = rendered
                    /\ project' = [project EXCEPT !.tracks[ti].clips = rendered.clips]
                    /\ UNCHANGED <<midiOptions, midiData, vlqCalls, dragging, audioBuffer, wavData>>
           ELSE UNCHANGED <<project, offline>>
    /\ UNCHANGED <<trackNodes, clock, isPlaying, playheadPosition,
                   activePlaybackSources, sources, animationFrameIdRef, pendingFrames,
                   playbackTimeRef, lastPass>>

\* a caller hands its options to generateMultiTrackMidi and downloads the Blob
downloadMidi ==
    /\ midiData' = generateMultiTrackMidi(midiOptions)
    /\ vlqCalls' = writeVariableLengthCalls(midiOptions)
    /\ UNCHANGED <<project, trackNodes, clock, isPlaying, playheadPosition,
                   activePlaybackSources, sources, animationFrameIdRef, pendingFrames,
                   playbackTimeRef, lastPass, renderResult, midiOptions, dragging,
                   audioBuffer, wavData>>

\* nothing rendered or exported yet
OfflineInit ==
    /\ renderResult = NoRender
    /\ midiData = <<>>
    /\ vlqCalls = {}
    /\ dragging = <<>>
    /\ audioBuffer = NoBuffer
    /\ wavData = <<>>

Init ==
    /\ project \in InitialProjects
    /\ midiOptions = NoOptions
    /\ OfflineInit
    /\ trackNodes = useAudioGraph(project.tracks)
    /\ clock = 0
    /\ isPlaying = FALSE
    /\ playheadPosition = 0
    /\ activePlaybackSources = EmptyMap
    /\ sources = {}
    /\ animationFrameIdRef = 0
    /\ pendingFrames = {}
    /\ playbackTimeRef = 0
    /\ lastPass = NoPass

Next ==
    \/ handleTransportPlay
    \/ handleTransportStop
    \/ \E f \in pendingFrames : animate(f)
    \/ \E d \in ClockSteps : clockAdvance(d)
    \/ \E field \in {"isMuted", "isSoloed"}, value \in BOOLEAN :
          updateTrack(2, field, value)

Spec == Init /\ [][Next]_vars

\* ---- the mixer panel: every mute / solo / volume / pan edit, with the
\* transport started and stopped in between
MixInit ==
    /\ Init
    /\ project.bpm = 120
    /\ ~project.loopRegion.isEnabled

MixNext ==
    \/ handleTransportPlay
    \/ handleTransportStop
    \/ \E ti \in 1..2, field \in {"isMuted", "isSoloed"}, value \in BOOLEAN :
          updateTrack(ti, field, value)
    \/ \E value \in Volumes : updateTrack(1, "volume", value)
    \/ \E value \in Pans : updateTrack(1, "pan", value)

MixSpec == MixInit /\ [][MixNext]_vars

\* ---- playback and export of tracks of every instrument kind -------------
\* the synth of a track: the default envelope or a short release
BounceSynths == {SynthInstrument, Synth(1, 3, 2)}

\* the clips of track tid: none, one empty clip, one clip of two notes, or
\* two clips of which the first ends last
BounceClips(tid) ==
    { <<>>,
      <<MIDIDAWClip(10 * tid, 0, <<>>)>>,
      <<MIDIDAWClip(10 * tid, 256, <<MelodyNote(0, 256), MelodyNote(256, 512)>>)>>,
      <<MIDIDAWClip(10 * tid, 512, <<MelodyNote(0, 512)>>),
        MIDIDAWClip(10 * tid + 1, 0, <<MelodyNote(256, 256)>>)>> }

BounceProjects ==
    { [bpm |-> b, durationTicks |-> 4 * TICKS_PER_QUARTER_NOTE,
       loopRegion |-> [isEnabled |-> FALSE, startTick |-> 0, endTick |-> 1024],
       tracks |-> << DAWTrack(1, "midi", i1, c1), DAWTrack(2, "midi", i2, c2) >>] :
      b \in Bpms,
      i1 \in {NoInstrument, EmptySampler, SamplerInstrument} \cup BounceSynths,
      c1 \in BounceClips(1),
      i2 \in {SynthInstrument},
      c2 \in {<<MIDIDAWClip(20, 256, <<MelodyNote(0, 256), MelodyNote(256, 512)>>)>>} }

BounceInit ==
    /\ project \in BounceProjects
    /\ midiOptions = NoOptions
    /\ OfflineInit
    /\ trackNodes = useAudioGraph(project.tracks)
    /\ clock = 0
    /\ isPlaying = FALSE
    /\ playheadPosition = 0
    /\ activePlaybackSources = EmptyMap
    /\ sources = {}
    /\ animationFrameIdRef = 0
    /\ pendingFrames = {}
    /\ playbackTimeRef = 0
    /\ lastPass = NoPass

BounceNext ==
    \/ handleTransportPlay
    \/ handleTransportStop
    \/ \E f \in pendingFrames : animate(f)
    \/ \E d \in ClockSteps : clockAdvance(d)
    \/ \E format \in {"midi", "wav"} : handleExport(1, format)

BounceSpec == BounceInit /\ [][BounceNext]_vars

\* ---- the MIDI writer on its own inputs -----------------------------------
\* start ticks at the boundaries of the variable-length encoding
MidiTicks == {0, 127, 128, 16383, 16384, 2097151, 2097152, 268435455}
MidiDurations == {1, 256}
\* tempi of the exporting panels (40 to 240 bpm), with and without a whole
\* number of microseconds per quarter note
MidiBpms == {40, 60, 70, 90, 120, 140, 240}
MidiNotes ==
    {[midiNote |-> 60, startTick |-> st, durationTicks |-> d] :
       st \in MidiTicks, d \in MidiDurations}

\* the notes of a track: none, one, or two in either order
MidiNoteSeqs ==
    {<<>>} \cup {<<n>> : n \in MidiNotes} \cup {<<n, m>> : n, m \in MidiNotes}

\* one track of any notes, or up to three tracks of few notes
MidiOptionsSet ==
    LET few == {<<>>,
                <<[midiNote |-> 60, startTick |-> 256, durationTicks |-> 256]>>,
                <<[midiNote |-> 64, startTick |-> 512, durationTicks |-> 128],
                  [midiNote |-> 60, startTick |-> 0, durationTicks |-> 512]>>}
        fewTracks == {[notes |-> ns, channel |-> c, velocity |-> 0] :
                        ns \in few, c \in {0, 1, 9}}
    IN  {[bpm |-> b, tracks |-> <<>>] : b \in Bpms}
        \cup {[bpm |-> b,
               tracks |-> <<[notes |-> <<[midiNote |-> 60, startTick |-> 0,
                                          durationTicks |-> 256]>>,
                             channel |-> 0, velocity |-> 0]>>] : b \in MidiBpms}
        \cup {[bpm |-> b, tracks |-> <<[notes |-> ns, channel |-> c, velocity |-> v]>>] :
                 b \in Bpms, ns \in MidiNoteSeqs, c \in {0, 9}, v \in {0, 100}}
        \cup {[bpm |-> 120, tracks |-> <<t1, t2>>] : t1, t2 \in fewTracks}
        \cup {[bpm |-> 120, tracks |-> <<t1, t2, t3>>] :
                 t1, t2 \in {t \in fewTracks : t.channel # 9},
                 t3 \in {t \in fewTracks : t.channel = 9}}

MidiInit ==
    /\ midiOptions \in MidiOptionsSet
    /\ OfflineInit
    /\ project = CHOOSE p \in InitialProjects : TRUE
    /\ trackNodes = useAudioGraph(project.tracks)
    /\ clock = 0
    /\ isPlaying = FALSE
    /\ playheadPosition = 0
    /\ activePlaybackSources = EmptyMap
    /\ sources = {}
    /\ animationFrameIdRef = 0
    /\ pendingFrames = {}
    /\ playbackTimeRef = 0
    /\ lastPass = NoPass

MidiNext == downloadMidi

MidiSpec == MidiInit /\ [][MidiNext]_vars

\* ---- drags of the loop region ----------------------------------------------
\* pointer positions and region bounds lie on a grid of eighth notes
RulerGrid == 8
RulerTicks == {128 * k : k \in 0..RulerGrid}
RulerDeltas == {128 * k : k \in (0 - RulerGrid)..RulerGrid}

RulerInit ==
    /\ \E p \in InitialProjects, st \in RulerTicks, en \in RulerTicks :
          /\ p.bpm = 120 /\ p.tracks[2].trackType = "audio"
          /\ st < en /\ en <= p.durationTicks
          /\ project = [p EXCEPT !.loopRegion =
                            [isEnabled |-> TRUE, startTick |-> st, endTick |-> en]]
    /\ midiOptions = NoOptions
    /\ OfflineInit
    /\ trackNodes = useAudioGraph(project.tracks)
    /\ clock = 0
    /\ isPlaying = FALSE
    /\ playheadPosition = 0
    /\ activePlaybackSources = EmptyMap
    /\ sources = {}
    /\ animationFrameIdRef = 0
    /\ pendingFrames = {}
    /\ playbackTimeRef = 0
    /\ lastPass = NoPass

RulerNext ==
    \/ \E part \in {"start", "end", "bar"} : handleMouseDown(part)
    \/ \E deltaTicks \in RulerDeltas : onMouseMove(deltaTicks)
    \/ onMouseUp

RulerSpec == RulerInit /\ [][RulerNext]_vars

\* ---- playback of a loaded project whose loop region is malformed ----------
\* the initialProject handed to the DAW: loop end on or before loop start
MalformedLoopRegions ==
    { [isEnabled |-> TRUE, startTick |-> 512, endTick |-> 512],
      [isEnabled |-> TRUE, startTick |-> 768, endTick |-> 256] }

MalformedInit ==
    /\ \E p \in InitialProjects, lr \in MalformedLoopRegions :
          project = [p EXCEPT !.loopRegion = lr]
    /\ midiOptions = NoOptions
    /\ OfflineInit
    /\ trackNodes = useAudioGraph(project.tracks)
    /\ clock = 0
    /\ isPlaying = FALSE
    /\ playheadPosition = 0
    /\ activePlaybackSources = EmptyMap
    /\ sources = {}
    /\ animationFrameIdRef = 0
    /\ pendingFrames = {}
    /\ playbackTimeRef = 0
    /\ lastPass = NoPass

MalformedNext ==
    \/ handleTransportPlay
    \/ handleTransportStop
    \/ \E f \in pendingFrames : animate(f)
    \/ \E d \in ClockSteps : clockAdvance(d)

MalformedSpec == MalformedInit /\ [][MalformedNext]_vars

\* ---- the WAV writer on its own inputs ---------------------------------------
MaxFrames == 3
WavSamples == {-6, -1, 3, 6}
WavSampleRates == {44100, 48000}

WavBuffers ==
    UNION { { [numberOfChannels |-> c, length |-> f, sampleRate |-> r, channels |-> ch] :
              r \in WavSampleRates, ch \in [1..c -> [1..f -> WavSamples]] } :
            c \in 1..2, f \in 0..MaxFrames }

WavInit ==
    /\ audioBuffer \in WavBuffers
    /\ wavData = <<>>
    /\ renderResult = NoRender
    /\ midiData = <<>>
    /\ vlqCalls = {}
    /\ dragging = <<>>
    /\ midiOptions = NoOptions
    /\ project = CHOOSE p \in InitialProjects : TRUE
    /\ trackNodes = useAudioGraph(project.tracks)
    /\ clock = 0
    /\ isPlaying = FALSE
    /\ playheadPosition = 0
    /\ activePlaybackSources = EmptyMap
    /\ sources = {}
    /\ animationFrameIdRef = 0
    /\ pendingFrames = {}
    /\ playbackTimeRef = 0
    /\ lastPass = NoPass

WavNext == downloadWav

WavSpec == WavInit /\ [][WavNext]_vars

\* ---- edits of the project while a loop plays ------------------------------
EditInit ==
    /\ Init
    /\ project.bpm = 120
    /\ project.loopRegion.isEnabled

EditNext ==
    \/ handleTransportPlay
    \/ handleTransportStop
    \/ \E f \in pendingFrames : animate(f)
    \/ \E d \in ClockSteps : clockAdvance(d)
    \/ \E value \in BOOLEAN : updateTrack(2, "isMuted", value)
    \/ deleteTrack

EditSpec == EditInit /\ [][EditNext]_vars

\* ---- export of long notes at slow and fast tempi ----------------------------
\* the tempi the bpm field takes; whole bars keep every time a whole number
\* of tenths of a second at each of them
RenderBpms == {60, 120, 240}

LongClips ==
    { <<MIDIDAWClip(10, 0, <<MelodyNote(0, 1024)>>)>>,
      <<MIDIDAWClip(10, 0, <<MelodyNote(0, 2048)>>)>>,
      <<MIDIDAWClip(10, 1024, <<MelodyNote(0, 1024), MelodyNote(1024, 2048)>>)>> }

LongNoteProjects ==
    { [bpm |-> b, durationTicks |-> 16 * TICKS_PER_QUARTER_NOTE,
       loopRegion |-> [isEnabled |-> FALSE, startTick |-> 0, endTick |-> 1024],
       tracks |-> << DAWTrack(1, "midi", i1, c1) >>] :
      b \in RenderBpms, i1 \in BounceSynths, c1 \in LongClips }

LongNoteInit ==
    /\ project \in LongNoteProjects
    /\ midiOptions = NoOptions
    /\ OfflineInit
    /\ trackNodes = useAudioGraph(project.tracks)
    /\ clock = 0
    /\ isPlaying = FALSE
    /\ playheadPosition = 0
    /\ activePlaybackSources = EmptyMap
    /\ sources = {}
    /\ animationFrameIdRef = 0
    /\ pendingFrames = {}
    /\ playbackTimeRef = 0
    /\ lastPass = NoPass

LongNoteNext ==
    \/ handleTransportPlay
    \/ handleTransportStop
    \/ \E f \in pendingFrames : animate(f)
    \/ \E d \in ClockSteps : clockAdvance(d)
    \/ \E format \in {"midi", "wav"} : handleExport(1, format)

LongNoteSpec == LongNoteInit /\ [][LongNoteNext]_vars

\* ---- the properties ------------------------------------------------------
\* the audibility rule as the specification states it
Audibility(t, allTracks) ==
    ~t.isMuted /\ ((\A j \in DOMAIN allTracks : ~allTracks[j].isSoloed) \/ t.isSoloed)

\* C1: from every reachable state, a stopPlayback() call leaves the registry
\* empty, has called stop on every emission the registry held and leaves no
\* animation-frame callback pending.
StopLeavesNothingScheduled ==
    LET r == stopPlayback(Engine, clock)
    IN  /\ DOMAIN r.registry = {}
        /\ r.pending = {}
        /\ \A s \in r.sources : ~s.held
        /\ \A s \in sources :
              InRegistry(s, activePlaybackSources) =>
                 \E z \in r.sources :
                    Ident(z) = Ident(s) /\ z.key = s.key /\ z.when = s.when /\ z.stopCalled

\* a stop has acted on a playback that had scheduled emissions
StoppedAfterPlayback ==
    /\ ~isPlaying
    /\ DOMAIN activePlaybackSources = {}
    /\ pendingFrames = {}
    /\ \E s \in sources : s.stopCalled

\* C2: every emission a scheduling pass created is held in the registry until
\* the next stopPlayback (no emission is overwritten and left unreachable).
EveryEmissionHeld ==
    \A s \in sources : ~s.stopCalled => InRegistry(s, activePlaybackSources)

\* C3: a synth voice that stopPlayback has stopped is silent at once: its
\* oscillators do not run past the time of the stop.
StoppedVoiceSilentAtOnce ==
    \A s \in sources : (s.kind = "synth" /\ s.stopCalled) => s.stopAt <= clock

\* C4: a poll that finds the playhead an overshoot D past loopRegion.endTick
\* re-runs the scheduling pass from startTick + (D mod (endTick - startTick)).
LoopWrapResumesAtWrappedPosition ==
    [][\A f \in pendingFrames :
          (crossesLoop(f) /\ animate(f)) =>
             LET lr == f.project.loopRegion
                 D == newPositionOf(f) - lr.endTick
             IN  lastPass'.startTick = lr.startTick + (D % (lr.endTick - lr.startTick))]_vars

\* C5: a poll that finds the playhead at or past loopRegion.endTick stops and
\* clears the handles of the previous iteration once and runs exactly one
\* scheduling pass: one emission per scheduled note, one registry generation,
\* one pending poll.
OnePassPerCrossing ==
    [][\A f \in pendingFrames :
          (crossesLoop(f) /\ animate(f)) =>
             /\ \A s \in sources :
                   InRegistry(s, activePlaybackSources) =>
                      /\ [stopSource(s, clock) EXCEPT !.held = FALSE] \in sources'
                      /\ s \notin sources'
             /\ lastPass'.origin = "loop" /\ lastPass'.time = clock
             /\ Cardinality(pendingFrames') = 1
             /\ \A g \in pendingFrames' :
                   g.id = animationFrameIdRef' /\ g.startFromTick = lastPass'.startTick
             /\ \A s \in sources' : s.held => (~s.stopCalled /\ s.when >= clock)
             /\ \A r \in lastPass'.requests :
                   Cardinality({s \in sources' :
                                   /\ Ident(s) = [track |-> r.track, clip |-> r.clip, note |-> r.note]
                                   /\ s.when = r.when /\ ~s.stopCalled}) = 1]_vars

\* a loop re-schedule has run and has stopped a voice of the previous iteration
LoopRescheduled ==
    /\ lastPass.origin = "loop"
    /\ DOMAIN activePlaybackSources # {}
    /\ \E s \in sources : s.stopCalled /\ ~s.held

\* C6: with looping disabled, the poll that finds the playhead at or past the
\* end of the project ends the polling loop and leaves the transport Stopped.
NaturalEndStopsTransport ==
    [][\A f \in pendingFrames :
          (/\ animate(f)
           /\ ~f.project.loopRegion.isEnabled
           /\ newPositionOf(f) >= f.project.durationTicks) =>
             (~isPlaying' /\ pendingFrames' = {})]_vars

\* C7: a second stopPlayback(), at once or after the clock has run on, leaves
\* the registry, the emissions and the polling state as the first left them,
\* and stopping with nothing scheduled changes nothing.
StopIsIdempotent ==
    /\ \A d \in {0} \cup ClockSteps :
          LET once == stopPlayback(Engine, clock)
              twice == stopPlayback(once, clock + d)
          IN  twice = once
    /\ (DOMAIN activePlaybackSources = {} /\ pendingFrames = {}) =>
          stopPlayback(Engine, clock) = Engine

\* nothing is scheduled and no poll is pending after an earlier playback
NothingScheduledAfterPlayback ==
    /\ ~isPlaying
    /\ animationFrameIdRef # 0
    /\ DOMAIN activePlaybackSources = {}
    /\ pendingFrames = {}
    /\ sources = {}

\* C8: the notes a scheduling pass started at startTick hands to the
\* synthesizer are exactly the notes of audible tracks with
\* clip.startTick + note.startTick >= startTick, each at its full distance
\* from the playhead.
PassSchedulesExactlyDueNotes ==
    lastPass.origin # "none" =>
       lastPass.requests =
          { [track |-> lastPass.tracks[x[1]].id, clip |-> lastPass.tracks[x[1]].clips[x[2]].id,
             note |-> x[3],
             when |-> lastPass.time
                       + ticksToSeconds(lastPass.tracks[x[1]].clips[x[2]].startTick
                                          + lastPass.tracks[x[1]].clips[x[2]].notes[x[3]].startTick
                                          - lastPass.startTick, lastPass.bpm)] :
            x \in { y \in (DOMAIN lastPass.tracks) \X (1..1) \X (1..2) :
                      /\ y[2] \in DOMAIN lastPass.tracks[y[1]].clips
                      /\ lastPass.tracks[y[1]].clips[y[2]].type = "midi"
                      /\ y[3] \in DOMAIN lastPass.tracks[y[1]].clips[y[2]].notes
                      /\ Audibility(lastPass.tracks[y[1]], lastPass.tracks)
                      /\ lastPass.tracks[y[1]].clips[y[2]].startTick
                           + lastPass.tracks[y[1]].clips[y[2]].notes[y[3]].startTick
                           >= lastPass.startTick } }

\* C9: for every combination of mute and solo flags the mixing graph and the
\* scheduling pass both find a track audible exactly when it is not muted and
\* (no track is soloed or the track itself is soloed).
AudibilityAgrees ==
    \A i \in DOMAIN project.tracks :
       /\ audible(project.tracks[i], project.tracks)
            = Audibility(project.tracks[i], project.tracks)
       /\ (i \in audibleTracks(project.tracks))
            = Audibility(project.tracks[i], project.tracks)

\* an unmuted track is inaudible because another track is soloed
SilencedBySolo ==
    \E i, j \in DOMAIN project.tracks :
       /\ i # j
       /\ project.tracks[j].isSoloed
       /\ ~project.tracks[i].isSoloed /\ ~project.tracks[i].isMuted
       /\ i \notin audibleTracks(project.tracks)

\* C10: after every mute / solo / volume / pan change, playing or not, each
\* track's gain is its volume if the track is audible and 0 otherwise, and
\* its pan is track.pan.
GainFollowsAudibility ==
    \A i \in DOMAIN project.tracks :
       /\ trackNodes[i].gain =
            IF Audibility(project.tracks[i], project.tracks)
            THEN project.tracks[i].volume ELSE 0
       /\ trackNodes[i].pan = project.tracks[i].pan

\* while playing, an edited track is silenced and keeps its edited pan
EditedWhilePlaying ==
    /\ isPlaying
    /\ \E f \in pendingFrames : f.project # project
    /\ trackNodes[1].gain = 0 /\ project.tracks[1].volume = 5
    /\ trackNodes[1].pan = -10
    /\ trackNodes[2].gain = 10

\* a track whose notes yield no emission: no instrument, or a sampler with
\* no sample loaded
SilentTrack(t) ==
    \/ t.instrument.type = "none"
    \/ t.instrument.type = "sampler" /\ ~t.instrument.hasSample

\* the emissions a pass created for its request r
EmissionsFor(r, srcs) ==
    {s \in srcs : /\ Ident(s) = [track |-> r.track, clip |-> r.clip, note |-> r.note]
                  /\ s.when = r.when /\ ~s.stopCalled}

\* C11: a scheduling pass creates no emission and no registry entry for a
\* note of a track with no instrument or of a sampler with no sample, runs
\* to its end (the transport plays, a poll is pending) and creates the
\* emission of every other note it scheduled.
SilentNotesAreSkipped ==
    [][(lastPass' # lastPass /\ lastPass'.origin # "none") =>
          /\ pendingFrames' # {}
          /\ \A g \in pendingFrames' : g.id = animationFrameIdRef'
          /\ \A r \in lastPass'.requests :
                IF SilentTrack(lastPass'.tracks[r.track])
                THEN /\ EmissionsFor(r, sources') = {}
                     /\ \A k \in DOMAIN activePlaybackSources' :
                           k.prefix = "play" => k.track # r.track
                ELSE /\ EmissionsFor(r, sources') # {}
                     /\ \E k \in DOMAIN activePlaybackSources' :
                           k.prefix = "play" /\ k.track = r.track /\ k.when = r.when]_vars

\* a pass has skipped the notes of a silent first track and scheduled the
\* notes of the synth track after it
SilentThenSounding ==
    /\ lastPass.origin # "none"
    /\ \E r \in lastPass.requests :
          r.track = 1 /\ SilentTrack(lastPass.tracks[1]) /\ EmissionsFor(r, sources) = {}
    /\ \E r \in lastPass.requests : r.track = 2 /\ EmissionsFor(r, sources) # {}
    /\ DOMAIN activePlaybackSources # {}

\* C12: renderMidiTrackToBuffer called with no clips or only empty clips
\* fails with an error and yields no buffer, and a render that succeeds
\* never yields a buffer of zero length.
RenderOfNoNotesFails ==
    /\ (/\ renderResult.status # "none"
        /\ \A c \in DOMAIN renderResult.clips : Len(renderResult.clips[c].notes) = 0)
          => (/\ renderResult.status = "error"
              /\ renderResult.length = 0
              /\ renderResult.voices = <<>>)
    /\ renderResult.status = "ok" => renderResult.length > 0

\* a synth track whose only clip is empty has been rendered
RenderedEmptyClip ==
    /\ renderResult.status = "error"
    /\ renderResult.track.instrument.type = "synth"
    /\ Len(renderResult.clips) = 1
    /\ Len(renderResult.clips[1].notes) = 0

\* the end ticks of the notes of clips, on the timeline
NoteEndTicks(clips) ==
    UNION {{clips[c].startTick + clips[c].notes[n].startTick + clips[c].notes[n].durationTicks :
              n \in DOMAIN clips[c].notes} : c \in DOMAIN clips}

\* C13: for a synth track the rendering context holds exactly
\* ceil(sampleRate * (ticksToSeconds(latest note end tick, bpm) + release))
\* sample frames (the products are whole in the units used here).
RenderLengthIsNotesPlusRelease ==
    (renderResult.status = "ok" /\ renderResult.track.instrument.type = "synth") =>
       \E latest \in NoteEndTicks(renderResult.clips) :
          /\ \A e \in NoteEndTicks(renderResult.clips) : e <= latest
          /\ renderResult.length =
                SamplesPerTenth * (ticksToSeconds(latest, renderResult.bpm)
                                     + renderResult.track.instrument.release)

\* what a voice request amounts to: kind, pitch, velocity, sounding length
\* and start relative to the origin of its pass
VoiceRequest(v, origin) ==
    <<v.kind, v.midiNote, v.velocity, v.stopAt - v.when, v.when - origin>>

\* the live pass in force started the rendered track from tick 0 at this
\* very clock reading, with the tempo of the render, and the track is audible
LivePassOfRenderedTrack ==
    /\ renderResult.status = "ok"
    /\ isPlaying /\ lastPass.origin = "play" /\ lastPass.startTick = 0
    /\ lastPass.time = clock /\ lastPass.bpm = renderResult.bpm
    /\ \E i \in DOMAIN lastPass.tracks :
          /\ lastPass.tracks[i] = renderResult.track
          /\ Audibility(lastPass.tracks[i], lastPass.tracks)

\* C14: offline rendering of an audible MIDI track with an instrument and
\* live playback from tick 0 at the same bpm request the same multiset of
\* voices: pitch, velocity, duration and start relative to the pass origin.
OfflineMatchesLive ==
    LivePassOfRenderedTrack =>
       LET live == {s \in sources : /\ s.track = renderResult.track.id
                                    /\ ~s.stopCalled /\ s.when >= lastPass.time}
           off == {i \in DOMAIN renderResult.voices : renderResult.voices[i] # NullSource}
           requests == {VoiceRequest(s, lastPass.time) : s \in live}
                         \cup {VoiceRequest(renderResult.voices[i], 0) : i \in off}
       IN  \A q \in requests :
              Cardinality({s \in live : VoiceRequest(s, lastPass.time) = q})
                = Cardinality({i \in off : VoiceRequest(renderResult.voices[i], 0) = q})

\* a synth track of two clips is playing from tick 0 and has been rendered
RenderedWhilePlaying ==
    /\ LivePassOfRenderedTrack
    /\ clock > 0
    /\ renderResult.track.instrument.type = "synth"
    /\ Len(renderResult.clips) = 2
    /\ Cardinality({s \in sources : s.track = renderResult.track.id /\ ~s.stopCalled}) = 2

\* C15: every synth voice of a playback or render pass at tempo bpm sounds
\* for ticksToSeconds(note.durationTicks, bpm), so that it ends where the
\* same pass would start a note placed at startTick + durationTicks.
NoteLengthFollowsTempo ==
    /\ \A s \in sources :
          (s.kind = "synth" /\ ~s.stopCalled) =>
             \A c \in DOMAIN project.tracks[s.track].clips :
                project.tracks[s.track].clips[c].id = s.clip =>
                   s.stopAt - s.when =
                      ticksToSeconds(project.tracks[s.track].clips[c].notes[s.note].durationTicks,
                                     project.bpm)
    /\ \A i \in DOMAIN renderResult.voices :
          renderResult.voices[i].kind = "synth" =>
             renderResult.voices[i].stopAt - renderResult.voices[i].when =
                ticksToSeconds(allNotesOf(renderResult.clips, 1)[i].durationTicks,
                               renderResult.bpm)

\* the envelope of synth voice v is short of attack + decay + release
ShortOfEnvelope(v) ==
    v.kind = "synth" /\ v.stopAt - v.when < (v.decayEnd - v.when) + v.release

\* C16: the release segment of every synth voice whose sounding length is
\* less than attack + decay + release starts at the voice's start time.
ShortNoteReleasesAtStart ==
    /\ \A s \in sources :
          (~s.stopCalled /\ ShortOfEnvelope(s)) => s.releaseStart = s.when
    /\ \A i \in DOMAIN renderResult.voices :
          ShortOfEnvelope(renderResult.voices[i]) =>
             renderResult.voices[i].releaseStart = renderResult.voices[i].when

\* ---- reading a Standard MIDI File back -----------------------------------
\* the standard variable-length decoder: seven bits per byte, most
\* significant group first, the last byte has bit 7 clear; at most four bytes
RECURSIVE ReadVariableLength(_, _, _, _)
ReadVariableLength(bytes, pos, acc, count) ==
    IF pos > Len(bytes) \/ count = 4
    THEN [value |-> acc, next |-> pos, ok |-> FALSE]
    ELSE LET value == acc * 128 + (bytes[pos] % 128)
         IN  IF bytes[pos] >= 128
             THEN ReadVariableLength(bytes, pos + 1, value, count + 1)
             ELSE [value |-> value, next |-> pos + 1, ok |-> TRUE]

\* the big-endian number in bytes[pos .. pos + n - 1]
RECURSIVE ReadBigEndian(_, _, _)
ReadBigEndian(bytes, pos, n) ==
    IF n = 0 THEN 0
    ELSE ReadBigEndian(bytes, pos, n - 1) * 256 + bytes[pos + n - 1]

\* the chunks after the header, each as far as its declared length reaches;
\* whole tells that the chunk lies within the file
RECURSIVE ReadChunks(_, _)
ReadChunks(data, pos) ==
    IF pos > Len(data) THEN <<>>
    ELSE IF pos + 7 > Len(data)
    THEN << [tag |-> <<>>, length |-> 0, payload |-> <<>>, whole |-> FALSE] >>
    ELSE LET length == ReadBigEndian(data, pos + 4, 4)
             whole == pos + 7 + length <= Len(data)
         IN  << [tag |-> SubSeq(data, pos, pos + 3), length |-> length,
                 payload |-> SubSeq(data, pos + 8,
                                    IF whole THEN pos + 7 + length ELSE Len(data)),
                 whole |-> whole] >>
               \o (IF whole THEN ReadChunks(data, pos + 8 + length) ELSE <<>>)

\* the events of a track chunk's payload from pos on, tick being the running
\* sum of the delta-times: channel messages of three bytes and meta events
\* (FF type length data); a malformed rest yields an event of kind "bad"
RECURSIVE ReadEvents(_, _, _)
ReadEvents(payload, pos, tick) ==
    IF pos > Len(payload) THEN <<>>
    ELSE LET delta == ReadVariableLength(payload, pos, 0, 0)
             at == delta.next
             now == tick + delta.value
             bad == << [kind |-> "bad", tick |-> now, delta |-> delta.value,
                        status |-> 0, data |-> <<>>] >>
         IN  IF ~delta.ok \/ at > Len(payload) THEN bad
             ELSE IF payload[at] = 255
             THEN IF at + 2 > Len(payload) \/ at + 2 + payload[at + 2] > Len(payload)
                  THEN bad
                  ELSE << [kind |-> "meta", tick |-> now, delta |-> delta.value,
                           status |-> payload[at + 1],
                           data |-> SubSeq(payload, at + 3, at + 2 + payload[at + 2])] >>
                         \o ReadEvents(payload, at + 3 + payload[at + 2], now)
             ELSE IF payload[at] < 128 \/ at + 2 > Len(payload) THEN bad
             ELSE << [kind |-> "channel", tick |-> now, delta |-> delta.value,
                      status |-> payload[at],
                      data |-> SubSeq(payload, at + 1, at + 2)] >>
                    \o ReadEvents(payload, at + 3, now)

\* the file written for midiOptions, read back
WrittenChunks == ReadChunks(midiData, 15)
WrittenEvents(k) == ReadEvents(WrittenChunks[k].payload, 1, 0)

\* the note-on / note-off events of kind status (144 or 128) an input track asks for
AskedEvents(track) ==
    {[note |-> n, status |-> 144 + track.channel,
      tick |-> track.notes[n].startTick, pitch |-> track.notes[n].midiNote] :
        n \in DOMAIN track.notes}
      \cup
    {[note |-> n, status |-> 128 + track.channel,
      tick |-> track.notes[n].startTick + track.notes[n].durationTicks,
      pitch |-> track.notes[n].midiNote] : n \in DOMAIN track.notes}

\* C17: the file starts with an MThd chunk of length 6, format 1, N + 1
\* tracks and division 256, followed by exactly N + 1 MTrk chunks: first
\* the tempo track (a set-tempo meta event and the end of track), then one
\* chunk per input track in input order, carrying that track's channel and
\* two events per note.
HeaderAndTrackOrder ==
    midiData # <<>> =>
       LET N == Len(midiOptions.tracks)
       IN  /\ Len(midiData) >= 14
           /\ SubSeq(midiData, 1, 4) = MThdTag
           /\ ReadBigEndian(midiData, 5, 4) = 6
           /\ ReadBigEndian(midiData, 9, 2) = 1
           /\ ReadBigEndian(midiData, 11, 2) = N + 1
           /\ ReadBigEndian(midiData, 13, 2) = 256
           /\ Len(WrittenChunks) = N + 1
           /\ \A k \in 1..(N + 1) :
                 WrittenChunks[k].tag = MTrkTag /\ WrittenChunks[k].whole
           /\ [i \in 1..Len(WrittenEvents(1)) |->
                  <<WrittenEvents(1)[i].kind, WrittenEvents(1)[i].status>>]
                 = << <<"meta", 81>>, <<"meta", 47>> >>
           /\ \A k \in 1..N :
                 LET events == WrittenEvents(k + 1)
                     track == midiOptions.tracks[k]
                 IN  /\ Len(events) = 2 * Len(track.notes) + 1
                     /\ events[Len(events)].kind = "meta"
                     /\ events[Len(events)].status = 47
                     /\ \A i \in 1..(Len(events) - 1) :
                           /\ events[i].kind = "channel"
                           /\ events[i].status % 16 = track.channel
                           /\ \E n \in DOMAIN track.notes :
                                 events[i].data[1] = track.notes[n].midiNote

\* three tracks on different channels, the second one empty, were written
WroteThreeTracks ==
    /\ midiData # <<>>
    /\ Len(midiOptions.tracks) = 3
    /\ midiOptions.tracks[1].channel = 1 /\ Len(midiOptions.tracks[1].notes) = 2
    /\ midiOptions.tracks[2].channel = 0 /\ Len(midiOptions.tracks[2].notes) = 0
    /\ midiOptions.tracks[3].channel = 9 /\ Len(midiOptions.tracks[3].notes) = 1
    /\ Len(WrittenChunks) = 4

\* C18: in every data track the note events are in non-decreasing order of
\* absolute tick whatever the order of the input notes, every delta-time is
\* the non-negative distance to the previous event (the first from tick 0),
\* and the running sum of the delta-times at each event is the absolute tick
\* the input asks for: the events read back are the asked events.
EventsSortedWithDeltas ==
    midiData # <<>> =>
       \A k \in 1..Len(midiOptions.tracks) :
          LET events == WrittenEvents(k + 1)
              asked == AskedEvents(midiOptions.tracks[k])
              notes == 1..(Len(events) - 1)
          IN  /\ Len(events) = Cardinality(asked) + 1
              /\ \A i \in notes :
                    /\ events[i].kind = "channel"
                    /\ events[i].delta >= 0
                    /\ events[i].delta =
                          events[i].tick - (IF i = 1 THEN 0 ELSE events[i - 1].tick)
                    /\ i > 1 => events[i - 1].tick <= events[i].tick
              /\ \A a \in asked :
                    Cardinality({b \in asked : /\ b.status = a.status /\ b.tick = a.tick
                                               /\ b.pitch = a.pitch})
                      = Cardinality({i \in notes : /\ events[i].status = a.status
                                                   /\ events[i].tick = a.tick
                                                   /\ events[i].data[1] = a.pitch})

\* a track whose second note starts before its first has been written
WroteNotesOutOfOrder ==
    /\ midiData # <<>>
    /\ \E k \in 1..Len(midiOptions.tracks) :
          /\ Len(midiOptions.tracks[k].notes) = 2
          /\ midiOptions.tracks[k].notes[2].startTick + midiOptions.tracks[k].notes[2].durationTicks
                < midiOptions.tracks[k].notes[1].startTick
          /\ Len(WrittenEvents(k + 1)) = 5

\* C19: for 0 <= v < 2^28 the standard decoder reads writeVariableLength(v)
\* back as v, using all its bytes; the groups are most significant first
\* and bit 7 is set on every byte but the last.
VariableLengthRoundTrip ==
    \A c \in vlqCalls :
       (0 <= c.value /\ c.value < 268435456) =>
          LET read == ReadVariableLength(c.bytes, 1, 0, 0)
              n == Len(c.bytes)
          IN  /\ n >= 1
              /\ read.ok /\ read.value = c.value /\ read.next = n + 1
              /\ \A i \in 1..n : c.bytes[i] \in 0..255
              /\ \A i \in 1..(n - 1) : c.bytes[i] >= 128
              /\ c.bytes[n] < 128
              /\ n > 1 => c.bytes[1] > 128

\* the export has encoded 2097151 in three bytes, 0 in one and 1 in one
EncodedBoundaryValues ==
    {[value |-> 2097151, bytes |-> <<255, 255, 127>>],
     [value |-> 0, bytes |-> <<0>>],
     [value |-> 1, bytes |-> <<1>>]} \subseteq vlqCalls

\* the sum of the first n entries of a sequence of numbers
RECURSIVE SumOf(_, _)
SumOf(numbers, n) == IF n = 0 THEN 0 ELSE SumOf(numbers, n - 1) + numbers[n]

\* the bytes an event takes in a track chunk: its delta-time, then three
\* bytes of a channel message or FF, type, length and data of a meta event
EventSize(e) ==
    (IF e.delta < 128 THEN 1 ELSE IF e.delta < 16384 THEN 2
     ELSE IF e.delta < 2097152 THEN 3 ELSE 4)
      + (IF e.kind = "meta" THEN 3 + Len(e.data) ELSE 3)

\* C20: every MTrk chunk's four-byte big-endian length field is the number
\* of bytes of its payload (the events up to and including the end of
\* track), and the file is 14 bytes of header plus 8 + declared length bytes
\* per chunk.
ChunkLengthsAddUp ==
    midiData # <<>> =>
       /\ Len(WrittenChunks) = Len(midiOptions.tracks) + 1
       /\ \A k \in DOMAIN WrittenChunks :
             LET chunk == WrittenChunks[k]
                 events == WrittenEvents(k)
             IN  /\ chunk.tag = MTrkTag /\ chunk.whole
                 /\ Len(chunk.payload) = chunk.length
                 /\ Len(events) >= 1
                 /\ \A i \in DOMAIN events :
                       /\ events[i].kind # "bad"
                       /\ (events[i].kind = "meta" /\ events[i].status = 47)
                            = (i = Len(events))
                 /\ chunk.length =
                       SumOf([i \in DOMAIN events |-> EventSize(events[i])], Len(events))
       /\ Len(midiData) =
             14 + SumOf([k \in DOMAIN WrittenChunks |-> 8 + WrittenChunks[k].length],
                        Len(WrittenChunks))

\* two data tracks with notes, one of them with a four-byte delta-time,
\* have been written
WroteLongDeltas ==
    /\ midiData # <<>>
    /\ Len(WrittenChunks) >= 2
    /\ \E i \in DOMAIN WrittenEvents(2) : WrittenEvents(2)[i].delta >= 2097152
    /\ WrittenChunks[2].length = 16

\* C21: the tempo track holds the set-tempo meta event FF 51 03 whose three
\* data bytes, big-endian, are the whole number nearest to 60000000 / bpm
\* (the upper one at a tie); 120 bpm gives 500000.
TempoIsRoundedMicroseconds ==
    midiData # <<>> =>
       LET tempo == WrittenEvents(1)[1]
           value == ReadBigEndian(tempo.data, 1, 3)
       IN  /\ tempo.kind = "meta" /\ tempo.status = 81 /\ tempo.delta = 0
           /\ Len(tempo.data) = 3
           /\ 2 * (value * midiOptions.bpm - 60000000) <= midiOptions.bpm
           /\ 2 * (60000000 - value * midiOptions.bpm) < midiOptions.bpm
           /\ midiOptions.bpm = 120 => value = 500000

\* a tempo whose microseconds per quarter note are rounded up was written
WroteRoundedTempo ==
    /\ midiData # <<>>
    /\ midiOptions.bpm = 70
    /\ ReadBigEndian(WrittenEvents(1)[1].data, 1, 3) = 857143

\* C22: after any sequence of drags of the loop region's start handle, end
\* handle or bar, from a valid region, startTick < endTick <= project length.
LoopRegionStaysValid ==
    /\ project.loopRegion.startTick < project.loopRegion.endTick
    /\ project.loopRegion.endTick <= project.durationTicks

\* the end handle has been pulled left of a start that lies less than a
\* quarter note before the project's end
PulledEndPastStart ==
    /\ dragging # <<>> /\ dragging[1].part = "end"
    /\ dragging[1].loopRegion.startTick + TICKS_PER_QUARTER_NOTE > project.durationTicks
    /\ project.loopRegion # dragging[1].loopRegion

\* C23: with looping enabled and loop end <= loop start, the region counts as
\* a minimal valid span: a poll that comes straight after a loop re-schedule,
\* before any audio time has passed, is inside the span, so it moves the
\* playhead and does not run the scheduling pass again.
PollAfterWrapAdvances ==
    [][\A f \in pendingFrames :
         ( /\ animate(f)
           /\ f.project.loopRegion.isEnabled
           /\ f.project.loopRegion.endTick <= f.project.loopRegion.startTick
           /\ lastPass.origin = "loop" /\ lastPass.time = clock )
         => (~crossesLoop(f) /\ playheadPosition' = newPositionOf(f))]_vars

\* C24: a scheduling pass, stopPlayback and renderMidiTrackToBuffer leave the
\* project's tracks, clips and notes as they were: every step of playing,
\* looping, stopping and exporting keeps project.tracks.
EngineLeavesProjectAlone ==
    [][project'.tracks = project.tracks]_vars

\* a track whose clip starts after tick 0 has been played, stopped and rendered
PlayedStoppedAndRendered ==
    /\ renderResult.status = "ok"
    /\ lastPass.origin = "play" /\ lastPass.requests # {}
    /\ ~isPlaying
    /\ \E c \in DOMAIN project.tracks[1].clips :
          project.tracks[1].clips[c].startTick > 0 /\ Len(project.tracks[1].clips[c].notes) > 0

\* the unsigned little-endian number in bytes pos .. pos + n - 1
RECURSIVE ReadLittleEndian(_, _, _)
ReadLittleEndian(bytes, pos, n) ==
    IF n = 0 THEN 0
    ELSE bytes[pos] + 256 * ReadLittleEndian(bytes, pos + 1, n - 1)

\* C25: for a buffer of F frames and C channels bufferToWav writes
\* 44 + 2*F*C bytes; the RIFF size field is 36 + 2*F*C, the data size field
\* 2*F*C, the format 1, the bits per sample 16, the block align 2*C and the
\* byte rate sampleRate*2*C.
WavHeaderMatchesSize ==
    wavData # <<>> =>
        LET F == audioBuffer.length
            C == audioBuffer.numberOfChannels
        IN  /\ Len(wavData) = 44 + 2 * F * C
            /\ ReadLittleEndian(wavData, 5, 4) = 36 + 2 * F * C
            /\ ReadLittleEndian(wavData, 41, 4) = 2 * F * C
            /\ ReadLittleEndian(wavData, 21, 2) = 1
            /\ ReadLittleEndian(wavData, 35, 2) = 16
            /\ ReadLittleEndian(wavData, 33, 2) = 2 * C
            /\ ReadLittleEndian(wavData, 29, 4) = audioBuffer.sampleRate * 2 * C

\* a stereo buffer of several frames has been written
WroteStereoWav ==
    /\ wavData # <<>>
    /\ audioBuffer.numberOfChannels = 2
    /\ audioBuffer.length >= 2

\* C26: a scheduling pass started at startTick skips an audio clip whose
\* startTick lies before startTick: the emissions the pass has registered
\* hold none of that clip.
AudioClipBeforePlayheadSkipped ==
    \A s \in sources :
      \A ti \in DOMAIN lastPass.tracks :
        \A ci \in DOMAIN lastPass.tracks[ti].clips :
          LET clip == lastPass.tracks[ti].clips[ci]
          IN  ( /\ s.kind = "audio" /\ InRegistry(s, activePlaybackSources)
                /\ clip.type = "audio"
                /\ clip.id = s.clip
                /\ lastPass.tracks[ti].id = s.track )
              => clip.startTick >= lastPass.startTick

\* C27: every pass of one playback reads the project as it was when play
\* started, so an edit made while playing changes nothing in what a loop
\* re-schedule creates: just after a re-schedule the emissions are those of
\* the notes due in the snapshot (lastPass.tracks), one for every due note
\* whose instrument can sound, and no note emission besides.
RescheduleEmitsFromSnapshot ==
    (lastPass.origin = "loop" /\ lastPass.time = clock) =>
        /\ \A r \in lastPass.requests :
              LET track == lastPass.tracks[r.track]
              IN  (track.instrument.type = "synth"
                     \/ (track.instrument.type = "sampler" /\ track.instrument.hasSample))
                  => \E s \in sources :
                        /\ s.kind # "audio"
                        /\ s.track = r.track /\ s.clip = r.clip /\ s.note = r.note
                        /\ s.when = r.when
        /\ \A s \in sources :
              (s.kind # "audio" /\ InRegistry(s, activePlaybackSources))
              => \E r \in lastPass.requests :
                    /\ s.track = r.track /\ s.clip = r.clip /\ s.note = r.note
                    /\ s.when = r.when

\* C28: between events, whatever plays, stops and loop wraps came before,
\* exactly one animation-frame callback is pending while the transport is
\* Playing and none while it is Stopped.
OnePollingChain ==
    IF isPlaying THEN Cardinality(pendingFrames) = 1 ELSE pendingFrames = {}

\* still playing after a loop wrap, the polls after it having moved the
\* playhead
PollingAfterWrap ==
    /\ isPlaying
    /\ lastPass.origin = "loop"
    /\ lastPass.time > 0
    /\ playheadPosition > project.loopRegion.startTick

\* C29: offline render never cuts a note short: at every bpm, the time at
\* which a note's oscillators are told to stop, in sample frames, is within
\* the length of the context allocated for the render.
RenderHoldsEveryNote ==
    renderResult.status = "ok" =>
        \A i \in DOMAIN renderResult.voices :
            renderResult.voices[i].kind = "synth" =>
                SamplesPerTenth * renderResult.voices[i].stopAt <= renderResult.length

\* C30: in every data track written, for two notes of the same pitch where
\* one ends at the tick at which the other starts, the note-off of the
\* earlier note comes before the note-on of the later one, in whatever order
\* the notes were supplied.  (Every note is at least a tick long, so a
\* note-off and a note-on of one pitch at one tick are such a pair.)
NoteOffBeforeNoteOnAtSameTick ==
    midiData # <<>> =>
       \A k \in 1..Len(midiOptions.tracks) :
          LET events == WrittenEvents(k + 1)
              channel == midiOptions.tracks[k].channel
          IN  \A i, j \in 1..(Len(events) - 1) :
                 ( /\ events[i].status = 128 + channel
                   /\ events[j].status = 144 + channel
                   /\ events[i].tick = events[j].tick
                   /\ events[i].data[1] = events[j].data[1] )
                 => i < j

====
